---------------------------- MODULE Spec2Model ----------------------------
(***************************************************************************)
(* A model of the squad and player core of devvspaces/fantasy_league:      *)
(* the Team aggregate (roster, captaincy, lineup validation), the squad    *)
(* manager's lineup recommendation, the fitness engine and the development *)
(* engine.                                                                 *)
(*                                                                         *)
(* Representation.                                                         *)
(*   - A PlayerID is a natural number; 0 stands for the empty string.      *)
(*   - A *PlayerID (Team.Captain, Team.ViceCaptain) is a sequence of       *)
(*     length 0 (nil) or 1 (the identity pointed to).                      *)
(*   - float64 quantities (Fitness, Morale, fatigue, recovery) are         *)
(*     fixed-point numbers counted in 1/Milli; intensities are counted in  *)
(*     tenths.                                                             *)
(*   - time.Now() is the variable now, a [year, yday] record.              *)
(*   - Every generator made by NewDevelopmentManager yields one stream,    *)
(*     that of seed 42.  A value of the stream is a number in 0..999,      *)
(*     read as a fraction of 1000 by Float64 and reduced modulo n by       *)
(*     Intn(n).  The variable tape holds the values one engine has drawn   *)
(*     and another has still to draw.                                      *)
(***************************************************************************)
EXTENDS Integers, Sequences, FiniteSets, TLC

VARIABLES
    Players,      \* Team.Players: the roster, a sequence of Player records
    Captain,      \* Team.Captain
    ViceCaptain,  \* Team.ViceCaptain
    Formation,    \* Team.Formation
    op,           \* the last call made and what it returned
    edits,        \* number of roster edits made so far (bounds the run)
    now,          \* the wall clock read by Player.Age
    subject,      \* subject[e]: the player handed to the e-th engine
    session,      \* session[e]: the last call made to the e-th engine
    tape,         \* stream values drawn by one engine, not yet by the other
    cursor,       \* cursor[e]: how many values of tape engine e has drawn
    script,       \* calls made to the first engine, still to be made to the second
    calls,        \* number of engine calls made so far (bounds the run)
    ticks,        \* number of days the clock has advanced (bounds the run)
    depth         \* the GetSquadDepth calls made: the roster and the map returned

teamVars == <<Players, Captain, ViceCaptain, Formation>>
engineVars == <<subject, session, tape, cursor, script, calls, ticks>>
vars == <<Players, Captain, ViceCaptain, Formation, op, edits, now, subject,
          session, tape, cursor, script, calls, ticks, depth>>

---------------------------------------------------------------------------
(* Bounds of the model *)

\* identities a caller may pass that are not taken from the roster
MaxFreshIds == 2
\* roster edits (AddPlayer / RemovePlayer calls) in one run of the lineup model
MaxEdits == 1
\* roster edits in one run of the squad model
MaxSquadEdits == 3
\* calls made to an engine in one run of the engine models
MaxCalls == 2
\* days that pass in one run of the engine models
MaxTicks == 1
\* calls made to each engine in one run of the twin model
MaxRounds == 1

---------------------------------------------------------------------------
(* Program constants *)

SquadLimit == 30
StartersCount == 11
MaxSubstitutes == 7
AvailableFitness == 70
PassingThreshold == 60
Milli == 1000

PositionGK == "GK"
PositionDEF == "DEF"
PositionMID == "MID"
PositionFWD == "FWD"

StatusAvailable == "available"
StatusInjured == "injured"

Formation442 == "4-4-2"
Formation433 == "4-3-3"
Formation451 == "4-5-1"
Formation352 == "3-5-2"
Formation532 == "5-3-2"
Formation4231 == "4-2-3-1"
Formation4312 == "4-3-1-2"
FormationDefault == Formation442

---------------------------------------------------------------------------
(* Sequence helpers *)

Range(s) == {s[i] : i \in DOMAIN s}

Min2(a, b) == IF a < b THEN a ELSE b
Max2(a, b) == IF a > b THEN a ELSE b

\* s without its i-th element: append(s[:i], s[i+1:]...)
RemoveAt(s, i) == [j \in 1..(Len(s) - 1) |-> IF j < i THEN s[j] ELSE s[j + 1]]

\* the identities of the players, in their order
IdsOf(players) == [i \in DOMAIN players |-> players[i].ID]

\* number of indices of s whose element equals x
CountOf(s, x) == Cardinality({i \in DOMAIN s : s[i] = x})

---------------------------------------------------------------------------
(* Attributes (attributes.go) *)

NewDefaultAttributes(position) ==
    LET base == [Quality |-> 65, Keeping |-> 0, Tackling |-> 0, Passing |-> 0,
                 Shooting |-> 0, Heading |-> 0, Speed |-> 0, Stamina |-> 0,
                 Perception |-> 0, BallControl |-> 0,
                 Consistency |-> 70, ImportantMatches |-> 70, Potential |-> 75,
                 Ambition |-> 70, Professionalism |-> 70]
    IN  CASE position = PositionGK ->
               [base EXCEPT !.Keeping = 70, !.Tackling = 20, !.Passing = 50,
                            !.Shooting = 10, !.Heading = 30, !.Speed = 40,
                            !.Stamina = 70, !.Perception = 65, !.BallControl = 30]
          [] position = PositionDEF ->
               [base EXCEPT !.Keeping = 20, !.Tackling = 70, !.Passing = 55,
                            !.Shooting = 35, !.Heading = 65, !.Speed = 65,
                            !.Stamina = 75, !.Perception = 60, !.BallControl = 50]
          [] position = PositionMID ->
               [base EXCEPT !.Keeping = 20, !.Tackling = 55, !.Passing = 70,
                            !.Shooting = 55, !.Heading = 50, !.Speed = 70,
                            !.Stamina = 80, !.Perception = 70, !.BallControl = 70]
          [] position = PositionFWD ->
               [base EXCEPT !.Keeping = 20, !.Tackling = 30, !.Passing = 60,
                            !.Shooting = 75, !.Heading = 60, !.Speed = 75,
                            !.Stamina = 70, !.Perception = 65, !.BallControl = 70]
          [] OTHER -> base

\* The ratings are the truncation of a float64 weighted sum.  The weights are
\* hundredths, so the sum is computed here in hundredths and divided once.
GetGoalkeeperRating(a) ==
    (a.Keeping * 50 + a.Speed * 10 + a.Perception * 20 + a.Stamina * 10
        + a.Passing * 10) \div 100

GetDefenderRating(a) ==
    (a.Tackling * 30 + a.Heading * 20 + a.Speed * 15 + a.Stamina * 15
        + a.Passing * 10 + a.Perception * 10) \div 100

GetMidfielderRating(a) ==
    (a.Passing * 25 + a.BallControl * 20 + a.Perception * 15 + a.Stamina * 15
        + a.Tackling * 15 + a.Shooting * 10) \div 100

GetForwardRating(a) ==
    (a.Shooting * 30 + a.BallControl * 20 + a.Speed * 20 + a.Heading * 15
        + a.Perception * 15) \div 100

---------------------------------------------------------------------------
(* Player (player.go) *)

\* the reading of the clock when a run starts
StartClock == [year |-> 2026, yday |-> 100]

\* a date of birth that makes a player `age` years old when a run starts
BornYearsAgo(age) == [year |-> StartClock.year - age, yday |-> StartClock.yday]

NewPlayer(id, position, dateOfBirth) ==
    [ID |-> id, Position |-> position, Status |-> StatusAvailable,
     Fitness |-> 100 * Milli, Morale |-> 75 * Milli,
     DateOfBirth |-> dateOfBirth, TotalMatches |-> 0,
     Attributes |-> NewDefaultAttributes(position)]

\* Player.Age at clock reading t
AgeAt(p, t) ==
    LET years == t.year - p.DateOfBirth.year
    IN  IF t.yday < p.DateOfBirth.yday THEN years - 1 ELSE years

IsAvailable_StatusOnly(p) == p.Status = StatusAvailable

IsAvailable(p) ==
    p.Status = StatusAvailable /\ p.Fitness >= AvailableFitness * Milli

CanPlayPosition_AtLeast(p, pos) ==
    \/ p.Position = pos
    \/ p.Position = PositionMID /\ pos \in {PositionDEF, PositionFWD}
    \/ /\ p.Position \in {PositionDEF, PositionFWD}
       /\ pos = PositionMID
       /\ p.Attributes.Passing >= PassingThreshold

CanPlayPosition(p, pos) ==
    IF p.Position = pos THEN TRUE
    ELSE CASE p.Position = PositionDEF ->
                pos = PositionDEF
                \/ (pos = PositionMID /\ p.Attributes.Passing > PassingThreshold)
           [] p.Position = PositionMID ->
                pos = PositionMID \/ pos = PositionDEF \/ pos = PositionFWD
           [] p.Position = PositionFWD ->
                pos = PositionFWD
                \/ (pos = PositionMID /\ p.Attributes.Passing > PassingThreshold)
           [] OTHER -> FALSE

GetOverallRating(p) ==
    CASE p.Position = PositionGK -> GetGoalkeeperRating(p.Attributes)
      [] p.Position = PositionDEF -> GetDefenderRating(p.Attributes)
      [] p.Position = PositionMID -> GetMidfielderRating(p.Attributes)
      [] p.Position = PositionFWD -> GetForwardRating(p.Attributes)
      [] OTHER -> p.Attributes.Quality

---------------------------------------------------------------------------
(* Fitness engine (fitness.go) *)

\* Intensities are counted in tenths and fitness in 1/Milli; a product is
\* rounded down to 1/Milli after each factor.

\* NewFitnessManager: fatigue per minute played, in hundredths
fatigueRate == 15
\* NewFitnessManager: recovery per day
recoveryRate == 10 * Milli
FatigueCap == 60 * Milli

CalculateMatchFatigue(p, minutesPlayed, matchIntensity, t) ==
    IF minutesPlayed = 0 THEN 0
    ELSE LET \* minutes * 0.15 * intensity: hundredths times tenths
             base == minutesPlayed * fatigueRate * matchIntensity
             stamina == (base * (150 - p.Attributes.Stamina)) \div 100
             age == AgeAt(p, t)
             aged == IF age > 30
                     THEN (stamina * (100 + (age - 30) * 5)) \div 100
                     ELSE stamina
             placed == CASE p.Position = PositionGK -> (aged * 60) \div 100
                         [] p.Position = PositionDEF -> (aged * 85) \div 100
                         [] p.Position = PositionMID -> (aged * 115) \div 100
                         [] p.Position = PositionFWD -> aged
                         [] OTHER -> aged
         IN  Min2(placed, FatigueCap)

CalculateDailyRecovery(p, trainingIntensity, t) ==
    LET base == recoveryRate + (p.Attributes.Stamina * Milli) \div 20
        age == AgeAt(p, t)
        aged == IF age < 23 THEN (base * 12) \div 10
                ELSE IF age > 30 THEN (base * (90 - (age - 30) * 2)) \div 100
                ELSE base
        trained == (aged * (20 - trainingIntensity)) \div 10
    IN  (trained * (200 + p.Attributes.Professionalism)) \div 200

ApplyMatchFitnessResult(p, minutesPlayed, intensity, t) ==
    [p EXCEPT !.Fitness =
        Max2(0, @ - CalculateMatchFatigue(p, minutesPlayed, intensity, t))]

ApplyDailyRecoveryResult(p, trainingIntensity, t) ==
    [p EXCEPT !.Fitness =
        Min2(100 * Milli, @ + CalculateDailyRecovery(p, trainingIntensity, t))]

---------------------------------------------------------------------------
(* Development engine (development.go) *)

TrainingGeneral == "general"
TrainingTechnical == "technical"
TrainingPhysical == "physical"
TrainingTactical == "tactical"
TrainingSetPieces == "set_pieces"

\* the values the stream of the seeded generator may hold
RawDraws == {11, 400}

\* rand.Intn(n) of the stream value r
Intn(r, n) == r % n

\* rand.Float64() < x of the stream value r, x counted in 1/10^8
Float64Below(r, x) == r * 100000 < x

\* TrainingResult.AttributeChanges: a map from attribute names to amounts
NoChanges == <<>>

\* A run of a call on the stream: the player as changed so far, the values
\* drawn so far and the changes recorded so far.  `ahead` holds the values
\* the stream is already known to yield next; beyond them any value may come.
NewRun(p) == [p |-> p, used |-> <<>>, changes |-> NoChanges]

Upcoming(run, ahead) ==
    IF Len(run.used) < Len(ahead) THEN {ahead[Len(run.used) + 1]}
    ELSE RawDraws

Consume(run, r) == [run EXCEPT !.used = Append(@, r)]

TrainableAttributes ==
    {"Keeping", "Tackling", "Passing", "Shooting", "Heading", "Speed",
     "Stamina", "Perception", "BallControl"}

getAttributeValue(p, attribute) ==
    IF attribute \in TrainableAttributes THEN p.Attributes[attribute] ELSE 50

applyAttributeChange(p, attribute, change) ==
    IF attribute \in TrainableAttributes
    THEN [p EXCEPT !.Attributes[attribute] = Min2(Max2(@ + change, 0), 100)]
    ELSE p

\* the chance in 1/10^7: hundredths of base chance times Potential, times
\* (100 + Professionalism) / 200, times (400000 + Morale) / 500000
calculateImprovementChance(p, t) ==
    LET age == AgeAt(p, t)
        baseChance == IF age < 21 THEN 80
                      ELSE IF age < 25 THEN 60
                      ELSE IF age < 28 THEN 40
                      ELSE IF age < 32 THEN 20
                      ELSE 5
        byPotential == baseChance * p.Attributes.Potential
        byProfessionalism == byPotential * (100 + p.Attributes.Professionalism)
    IN  (byProfessionalism \div 100) * ((400 * Milli + p.Morale) \div Milli)

\* calculateImprovement without its first branch
calculateImprovement_NoCeiling(run, attribute, ahead) ==
    LET current == getAttributeValue(run.p, attribute)
    IN  IF current >= 90
        THEN {[run |-> Consume(run, r),
               improvement |-> IF Float64Below(r, 10000000) THEN 1 ELSE 0] :
                 r \in Upcoming(run, ahead)}
        ELSE IF current >= 80
        THEN {[run |-> Consume(run, r),
               improvement |-> IF Float64Below(r, 30000000) THEN 1 ELSE 0] :
                 r \in Upcoming(run, ahead)}
        ELSE {[run |-> Consume(run, r), improvement |-> 1 + Intn(r, 2)] :
                 r \in Upcoming(run, ahead)}

\* the runs that calculateImprovement may make of `run`, each with the
\* amount it returns
calculateImprovement(run, attribute, ahead) ==
    LET current == getAttributeValue(run.p, attribute)
    IN  IF current >= 95 THEN {[run |-> run, improvement |-> 0]}
        ELSE IF current >= 90
        THEN {[run |-> Consume(run, r),
               improvement |-> IF Float64Below(r, 10000000) THEN 1 ELSE 0] :
                 r \in Upcoming(run, ahead)}
        ELSE IF current >= 80
        THEN {[run |-> Consume(run, r),
               improvement |-> IF Float64Below(r, 30000000) THEN 1 ELSE 0] :
                 r \in Upcoming(run, ahead)}
        ELSE {[run |-> Consume(run, r), improvement |-> 1 + Intn(r, 2)] :
                 r \in Upcoming(run, ahead)}

\* if improvement > 0 { result.AttributeChanges[attr] = improvement;
\*                      dm.applyAttributeChange(player, attr, improvement) }
Improve(run, attribute, improvement) ==
    IF improvement > 0
    THEN [run EXCEPT !.changes = (attribute :> improvement) @@ @,
                     !.p = applyAttributeChange(@, attribute, improvement)]
    ELSE run

\* the body of the training loops: one draw against the chance x (in
\* 1/10^8), then calculateImprovement when the draw is below it
TrainAttribute(run, attribute, x, ahead) ==
    UNION {IF Float64Below(r, x)
           THEN {Improve(i.run, attribute, i.improvement) :
                    i \in calculateImprovement(Consume(run, r), attribute, ahead)}
           ELSE {Consume(run, r)} : r \in Upcoming(run, ahead)}

RECURSIVE TrainAttributes(_, _, _, _)
TrainAttributes(runs, attrs, x, ahead) ==
    IF attrs = <<>> THEN runs
    ELSE TrainAttributes(
             UNION {TrainAttribute(run, Head(attrs), x, ahead) : run \in runs},
             Tail(attrs), x, ahead)

trainTechnical(run, chance, ahead) ==
    TrainAttributes({run}, <<"Passing", "BallControl", "Shooting">>,
                    chance * 10, ahead)

trainPhysical(run, chance, ahead) ==
    TrainAttributes({run}, <<"Speed", "Stamina", "Heading">>, chance * 8, ahead)

trainTactical_Physical(run, chance, ahead) == trainPhysical(run, chance, ahead)

trainTactical(run, chance, ahead) ==
    TrainAttributes({run}, <<"Perception", "Tackling">>, chance * 10, ahead)

trainSetPieces(run, chance, ahead) ==
    IF run.p.Position = PositionGK
    THEN UNION {IF Float64Below(r, chance * 10)
                THEN {IF i.improvement > 0
                      THEN [i.run EXCEPT
                              !.changes = ("Keeping" :> i.improvement) @@ @,
                              !.p.Attributes.Keeping = @ + i.improvement]
                      ELSE i.run :
                        i \in calculateImprovement(Consume(run, r), "Keeping",
                                                   ahead)}
                ELSE {Consume(run, r)} : r \in Upcoming(run, ahead)}
    ELSE TrainAttributes({run}, <<"Heading", "Shooting">>, chance * 7, ahead)

allAttrs ==
    <<"Keeping", "Tackling", "Passing", "Shooting", "Heading", "Speed",
      "Stamina", "Perception", "BallControl">>

\* the loop of trainGeneral with n rounds to go: a draw picks the attribute
RECURSIVE trainGeneralLoop(_, _, _, _)
trainGeneralLoop(runs, n, x, ahead) ==
    IF n = 0 THEN runs
    ELSE trainGeneralLoop(
             UNION {UNION {TrainAttribute(Consume(run, r),
                                          allAttrs[Intn(r, Len(allAttrs)) + 1],
                                          x, ahead) :
                              r \in Upcoming(run, ahead)} : run \in runs},
             n - 1, x, ahead)

trainGeneral(run, chance, ahead) ==
    UNION {trainGeneralLoop({Consume(run, r)}, 2 + Intn(r, 2), chance * 5, ahead) :
              r \in Upcoming(run, ahead)}

\* the outcomes of ProcessTraining: the player it leaves, the result it
\* returns and the stream values it drew
ProcessTrainingResult(p, trainingType, intensity, t, ahead) ==
    LET improvementChance == calculateImprovementChance(p, t)
        run == NewRun(p)
        runs == CASE trainingType = TrainingTechnical ->
                       trainTechnical(run, improvementChance, ahead)
                  [] trainingType = TrainingPhysical ->
                       trainPhysical(run, improvementChance, ahead)
                  [] trainingType = TrainingTactical ->
                       trainTactical(run, improvementChance, ahead)
                  [] trainingType = TrainingSetPieces ->
                       trainSetPieces(run, improvementChance, ahead)
                  [] OTHER -> trainGeneral(run, improvementChance, ahead)
    IN  {[p |-> r.p, used |-> r.used,
          result |-> [AttributeChanges |-> r.changes,
                      FitnessChange |-> -5 * intensity * (Milli \div 10),
                      MoraleChange |-> IF intensity < 7 THEN 2 * Milli
                                       ELSE IF intensity > 9 THEN -3 * Milli
                                       ELSE 0]] : r \in runs}

youngPlayerDevelopment(run, t, ahead) ==
    LET grown == IF AgeAt(run.p, t) < 21
                 THEN {IF Float64Below(r, 30000000)
                       THEN [Consume(run, r) EXCEPT
                               !.p.Attributes.Speed = Min2(@ + 1, 100),
                               !.p.Attributes.Stamina = Min2(@ + 1, 100)]
                       ELSE Consume(run, r) : r \in Upcoming(run, ahead)}
                 ELSE {run}
        attrs == <<"Passing", "BallControl", "Perception", "Tackling">>
    IN  UNION {UNION {IF Float64Below(r, g.p.Attributes.Potential * 500000)
                      THEN {[Consume(Consume(g, r), k) EXCEPT
                               !.p = applyAttributeChange(
                                         @, attrs[Intn(k, Len(attrs)) + 1], 1)] :
                               k \in Upcoming(Consume(g, r), ahead)}
                      ELSE {Consume(g, r)} : r \in Upcoming(g, ahead)} :
                 g \in grown}

veteranDecline(run, t, ahead) ==
    LET age == AgeAt(run.p, t)
        \* (age - 30) * 0.05 in 1/10^8
        declineRate == (age - 30) * 5000000
        slowed == {IF Float64Below(r, declineRate)
                   THEN [Consume(run, r) EXCEPT
                           !.p.Attributes.Speed = Max2(@ - 1, 30)]
                   ELSE Consume(run, r) : r \in Upcoming(run, ahead)}
        tired == UNION {{IF Float64Below(r, (declineRate * 8) \div 10)
                         THEN [Consume(s, r) EXCEPT
                                 !.p.Attributes.Stamina = Max2(@ - 1, 30)]
                         ELSE Consume(s, r) : r \in Upcoming(s, ahead)} :
                           s \in slowed}
    IN  UNION {{IF Float64Below(r, 20000000)
                THEN [Consume(s, r) EXCEPT
                        !.p.Attributes.Perception = Min2(@ + 1, 100)]
                ELSE Consume(s, r) : r \in Upcoming(s, ahead)} : s \in tired}

\* the outcomes of ProcessNaturalDevelopment: the player it leaves and the
\* stream values it drew
ProcessNaturalDevelopmentResult(p, t, ahead) ==
    LET age == AgeAt(p, t)
        runs == IF age < 23 THEN youngPlayerDevelopment(NewRun(p), t, ahead)
                ELSE IF age > 30 THEN veteranDecline(NewRun(p), t, ahead)
                ELSE {NewRun(p)}
    IN  {[p |-> [r.p EXCEPT !.Attributes.Quality = GetOverallRating(r.p)],
          used |-> r.used] : r \in runs}

---------------------------------------------------------------------------
(* The engines at work on the players handed to them *)

\* the record of a call to an engine: its arguments, what it returned and
\* the player as it was handed over
MkSession(name, kind, intensity, minutes, result, pre) ==
    [name |-> name, kind |-> kind, intensity |-> intensity,
     minutes |-> minutes, result |-> result, pre |-> pre]

NoResult == [AttributeChanges |-> NoChanges, FitnessChange |-> 0,
             MoraleChange |-> 0]

\* no engine has been made and no player handed over
NoEngines ==
    /\ subject = <<>>
    /\ session = <<>>
    /\ tape = <<>>
    /\ cursor = <<>>
    /\ script = <<>>
    /\ calls = 0
    /\ ticks = 0

\* the values of the stream that engine e will draw next
Ahead(e) == SubSeq(tape, cursor[e] + 1, Len(tape))

Lowest(s) == CHOOSE m \in Range(s) : \A x \in Range(s) : m <= x

\* the tape and the cursors once engine e has drawn the values `used`;
\* values every engine has drawn are dropped from the tape
Drawn(e, used) ==
    LET ahead == Ahead(e)
        whole == SubSeq(tape, 1, cursor[e])
                    \o (IF Len(used) >= Len(ahead) THEN used ELSE ahead)
        moved == [cursor EXCEPT ![e] = @ + Len(used)]
        low == Lowest(moved)
    IN  [tape |-> SubSeq(whole, low + 1, Len(whole)),
         cursor |-> [i \in DOMAIN moved |-> moved[i] - low]]

\* the calls still to be made to the second engine once engine e has been
\* called: the second engine is made the calls of the first, in their order
Scripted(e, call) ==
    IF Len(subject) = 1 THEN script
    ELSE IF e = 1 THEN Append(script, call)
    ELSE Tail(script)

TrainingCall(trainingType, intensity) ==
    [name |-> "ProcessTraining", kind |-> trainingType, intensity |-> intensity]

NaturalCall ==
    [name |-> "ProcessNaturalDevelopment", kind |-> "", intensity |-> 0]

ApplyMatchFitness(e, minutesPlayed, intensity) ==
    /\ subject' = [subject EXCEPT ![e] =
                      ApplyMatchFitnessResult(@, minutesPlayed, intensity, now)]
    /\ session' = [session EXCEPT ![e] =
                      MkSession("ApplyMatchFitness", "", intensity,
                                minutesPlayed, NoResult, subject[e])]
    /\ calls' = calls + 1
    /\ UNCHANGED <<teamVars, op, edits, now, tape, cursor, script, ticks, depth>>

ApplyDailyRecovery(e, trainingIntensity) ==
    /\ subject' = [subject EXCEPT ![e] =
                      ApplyDailyRecoveryResult(@, trainingIntensity, now)]
    /\ session' = [session EXCEPT ![e] =
                      MkSession("ApplyDailyRecovery", "", trainingIntensity, 0,
                                NoResult, subject[e])]
    /\ calls' = calls + 1
    /\ UNCHANGED <<teamVars, op, edits, now, tape, cursor, script, ticks, depth>>

ProcessTraining(e, trainingType, intensity) ==
    /\ \E o \in {[p |-> r.p, result |-> r.result, stream |-> Drawn(e, r.used)] :
                    r \in ProcessTrainingResult(subject[e], trainingType,
                                                intensity, now, Ahead(e))} :
          /\ subject' = [subject EXCEPT ![e] = o.p]
          /\ session' = [session EXCEPT ![e] =
                            MkSession("ProcessTraining", trainingType,
                                      intensity, 0, o.result, subject[e])]
          /\ tape' = o.stream.tape
          /\ cursor' = o.stream.cursor
    /\ script' = Scripted(e, TrainingCall(trainingType, intensity))
    /\ calls' = calls + 1
    /\ UNCHANGED <<teamVars, op, edits, now, ticks, depth>>

ProcessNaturalDevelopment(e) ==
    /\ \E o \in {[p |-> r.p, stream |-> Drawn(e, r.used)] :
                    r \in ProcessNaturalDevelopmentResult(subject[e], now,
                                                          Ahead(e))} :
          /\ subject' = [subject EXCEPT ![e] = o.p]
          /\ session' = [session EXCEPT ![e] =
                            MkSession("ProcessNaturalDevelopment", "", 0, 0,
                                      NoResult, subject[e])]
          /\ tape' = o.stream.tape
          /\ cursor' = o.stream.cursor
    /\ script' = Scripted(e, NaturalCall)
    /\ calls' = calls + 1
    /\ UNCHANGED <<teamVars, op, edits, now, ticks, depth>>

\* a day passes on the wall clock
Tick ==
    /\ now' = IF now.yday >= 365
              THEN [year |-> now.year + 1, yday |-> 1]
              ELSE [now EXCEPT !.yday = @ + 1]
    /\ ticks' = ticks + 1
    /\ UNCHANGED <<teamVars, op, edits, subject, session, tape, cursor, script,
                   calls, depth>>

---------------------------------------------------------------------------
(* Formation and Lineup (formation.go) *)

ValidFormations ==
    {Formation442, Formation433, Formation451, Formation352, Formation532,
     Formation4231, Formation4312}

FourPositions == <<PositionGK, PositionDEF, PositionMID, PositionFWD>>

\* a FormationRequirements map: position -> number of starters
FormationRequirements(gk, def, mid, fwd) ==
    (PositionGK :> gk) @@ (PositionDEF :> def) @@ (PositionMID :> mid)
        @@ (PositionFWD :> fwd)

GetPositionRequirements(f) ==
    CASE f = Formation442 -> FormationRequirements(1, 4, 4, 2)
      [] f = Formation433 -> FormationRequirements(1, 4, 3, 3)
      [] f = Formation451 -> FormationRequirements(1, 4, 5, 1)
      [] f = Formation352 -> FormationRequirements(1, 3, 5, 2)
      [] f = Formation532 -> FormationRequirements(1, 5, 3, 2)
      [] f = Formation4231 -> FormationRequirements(1, 4, 5, 1)
      [] f = Formation4312 -> FormationRequirements(1, 4, 4, 2)
      [] OTHER -> FormationRequirements(1, 4, 4, 2)

IsValid_Any(f) == TRUE

IsValid(f) == f \in ValidFormations

\* a Lineup value; Captain 0 is the empty PlayerID
MkLineup(f, starters, positions, subs, captain) ==
    [Formation |-> f, Starters |-> starters, Positions |-> positions,
     Substitutes |-> subs, Captain |-> captain]

NoLineup == MkLineup("", <<>>, <<>>, <<>>, 0)

---------------------------------------------------------------------------
(* Errors (errors.go, and the fmt.Errorf values of team.go) *)

\* An error value: its code (or the format of its message) and the values
\* the message is formatted with.  Returned is every normal return; Panic
\* is a call that did not return.
MkError(code, player, pos, required, got) ==
    [code |-> code, player |-> player, pos |-> pos, required |-> required,
     got |-> got]

NoError == MkError("nil", 0, "", 0, 0)
ErrPlayerNotFound == MkError("PLAYER_NOT_FOUND", 0, "", 0, 0)
ErrInvalidFormation == MkError("INVALID_FORMATION", 0, "", 0, 0)
ErrInsufficientPlayers == MkError("INSUFFICIENT_PLAYERS", 0, "", 0, 0)
ErrPlayerUnavailable == MkError("PLAYER_UNAVAILABLE", 0, "", 0, 0)
ErrSquadFull == MkError("squad size limit reached", 0, "", 0, 0)
ErrAlreadyInSquad == MkError("player already in squad", 0, "", 0, 0)
ErrNotInSquad == MkError("player not found in squad", 0, "", 0, 0)
ErrCannotPlay(id, pos) == MkError("player %s cannot play %s", id, pos, 0, 0)
ErrFormationRequires(required, pos, got) ==
    MkError("formation requires %d %s, got %d", 0, pos, required, got)
PanicIndexOutOfRange == MkError("panic: index out of range", 0, "", 0, 0)

---------------------------------------------------------------------------
(* Team (team.go) *)

\* index of the first roster entry with this identity, 0 when there is none
IndexOfPlayer(players, playerID) ==
    IF \E i \in DOMAIN players : players[i].ID = playerID
    THEN CHOOSE i \in DOMAIN players :
            /\ players[i].ID = playerID
            /\ \A j \in 1..(i - 1) : players[j].ID # playerID
    ELSE 0

HasPlayer(players, playerID) == IndexOfPlayer(players, playerID) # 0

\* Team.GetPlayer, for an identity that HasPlayer
GetPlayer(players, playerID) == players[IndexOfPlayer(players, playerID)]

GetAvailablePlayers(players) == SelectSeq(players, IsAvailable)

\* Team.AddPlayer: the roster and the error it leaves
AddPlayerLimitReached_OffByOne(players) == Len(players) > SquadLimit

AddPlayerLimitReached(players) == Len(players) >= SquadLimit

AddPlayerResult(players, p) ==
    IF AddPlayerLimitReached(players)
    THEN [players |-> players, err |-> ErrSquadFull]
    ELSE IF \E i \in DOMAIN players : players[i].ID = p.ID
         THEN [players |-> players, err |-> ErrAlreadyInSquad]
         ELSE [players |-> Append(players, p), err |-> NoError]

\* Team.RemovePlayer: the roster, the captaincy and the error it leaves
ClearIfEqual_Never(ref, playerID) == ref

ClearIfEqual(ref, playerID) ==
    IF ref # <<>> /\ ref[1] = playerID THEN <<>> ELSE ref

RemovePlayerResult(players, captain, vice, playerID) ==
    LET i == IndexOfPlayer(players, playerID)
    IN  IF i = 0
        THEN [players |-> players, captain |-> captain, vice |-> vice,
              err |-> ErrNotInSquad]
        ELSE [players |-> RemoveAt(players, i),
              captain |-> ClearIfEqual(captain, playerID),
              vice |-> ClearIfEqual(vice, playerID),
              err |-> NoError]

\* Team.validateFormationPositions: the values it may return.  The loop over
\* the starters stops at the first one it rejects; indexing Positions past
\* its end panics.  The loop over the requirements ranges over a Go map, in
\* no fixed order, so any unmet requirement may be the one reported.
FirstBadSlot(players, lineup) ==
    LET bad == {i \in DOMAIN lineup.Starters :
                   \/ i > Len(lineup.Positions)
                   \/ ~CanPlayPosition(GetPlayer(players, lineup.Starters[i]),
                                       lineup.Positions[i])}
    IN  IF bad = {} THEN 0 ELSE CHOOSE i \in bad : \A j \in bad : i <= j

validateFormationPositions(players, lineup) ==
    LET requiredPositions == GetPositionRequirements(lineup.Formation)
        i == FirstBadSlot(players, lineup)
        assigned == SubSeq(lineup.Positions, 1, Len(lineup.Starters))
        positionCount == [pos \in DOMAIN requiredPositions |->
                            CountOf(assigned, pos)]
        unmet == {pos \in DOMAIN requiredPositions :
                    positionCount[pos] # requiredPositions[pos]}
    IN  IF i # 0
        THEN IF i > Len(lineup.Positions)
             THEN {PanicIndexOutOfRange}
             ELSE {ErrCannotPlay(lineup.Starters[i], lineup.Positions[i])}
        ELSE IF unmet = {} THEN {NoError}
             ELSE {ErrFormationRequires(requiredPositions[pos], pos,
                                        positionCount[pos]) : pos \in unmet}

\* Team.ValidateLineup: the values it may return
FirstUnfitStarter(players, lineup) ==
    LET bad == {i \in DOMAIN lineup.Starters :
                   \/ ~HasPlayer(players, lineup.Starters[i])
                   \/ ~IsAvailable(GetPlayer(players, lineup.Starters[i]))}
    IN  IF bad = {} THEN 0 ELSE CHOOSE i \in bad : \A j \in bad : i <= j

ValidateLineup(players, lineup) ==
    LET i == FirstUnfitStarter(players, lineup)
    IN  IF Len(lineup.Starters) # StartersCount THEN {ErrInsufficientPlayers}
        ELSE IF i # 0
             THEN IF ~HasPlayer(players, lineup.Starters[i])
                  THEN {ErrPlayerNotFound}
                  ELSE {ErrPlayerUnavailable}
             ELSE IF ~IsValid(lineup.Formation) THEN {ErrInvalidFormation}
                  ELSE validateFormationPositions(players, lineup)

\* the orders in which a range over a map with these keys may visit them
RECURSIVE MapOrders(_)
MapOrders(keys) ==
    IF keys = {} THEN {<<>>}
    ELSE UNION {{<<k>> \o rest : rest \in MapOrders(keys \ {k})} : k \in keys}

\* the loop of Team.GetBestEleven over the positions in the order given:
\* for each, the first `count` available players that can play it
RECURSIVE bestEleven(_, _, _)
bestEleven(available, requirements, order) ==
    IF order = <<>> THEN [players |-> <<>>, positions |-> <<>>]
    ELSE LET pos == Head(order)
             Can(p) == CanPlayPosition(p, pos)
             candidates == SelectSeq(available, Can)
             taken == SubSeq(candidates, 1,
                             Min2(requirements[pos], Len(candidates)))
             rest == bestEleven(available, requirements, Tail(order))
         IN  [players |-> taken \o rest.players,
              positions |-> [i \in DOMAIN taken |-> pos] \o rest.positions]

\* Team.GetBestEleven: the players it may return, each with the position it
\* was taken for (none when fewer than eleven are available)
GetBestEleven(players, formation) ==
    LET available == GetAvailablePlayers(players)
        requirements == GetPositionRequirements(formation)
    IN  IF Len(available) < StartersCount
        THEN {[players |-> available, positions |-> <<>>]}
        ELSE {bestEleven(available, requirements, order) :
                 order \in MapOrders(DOMAIN requirements)}

---------------------------------------------------------------------------
(* SquadManager (squad.go) *)

\* sort.Slice(s, less) with less(i, j) == rating of s[i] > rating of s[j].
\* The library does not promise to keep equal elements in their order, and
\* what it does depends on the toolchain the program is built with:
\*   - on at most InsertionSortMax elements, Go 1.19 and later run an
\*     insertion sort (pdqsort's base case), which keeps equal elements in
\*     order; Go 1.18 and earlier run one pass of Shell sort with gap
\*     ShellGap first (quickSort's base case), which does not;
\*   - on more elements both partition around pivots, and the order of equal
\*     elements is whatever the partitioning leaves.
InsertionSortMax == 12
ShellGap == 6

RECURSIVE InsertionSort(_)
InsertionSort(s) ==
    IF s = <<>> THEN <<>>
    ELSE LET n == Len(s)
             sorted == InsertionSort(SubSeq(s, 1, n - 1))
             x == s[n]
             k == Cardinality({i \in DOMAIN sorted :
                     GetOverallRating(sorted[i]) >= GetOverallRating(x)})
         IN  SubSeq(sorted, 1, k) \o <<x>> \o SubSeq(sorted, k + 1, n - 1)

\* the sequences of length n (or of all of S) that a descending order of the
\* candidates with indices S may start with
RECURSIVE DescendingHeads(_, _, _)
DescendingHeads(cands, S, n) ==
    IF n = 0 \/ S = {} THEN {<<>>}
    ELSE LET top == {i \in S : \A j \in S :
                        GetOverallRating(cands[i]) >= GetOverallRating(cands[j])}
         IN  UNION {{<<cands[i]>> \o r :
                        r \in DescendingHeads(cands, S \ {i}, n - 1)} : i \in top}

\* for i := a + 6; i < b; i++ { if less(i, i-6) { swap(i, i-6) } } on at most
\* InsertionSortMax elements: the pairs (i, i-6) are disjoint
ShellPass(s) ==
    LET n == Len(s)
        Less(i, j) == GetOverallRating(s[i]) > GetOverallRating(s[j])
    IN  [i \in 1..n |->
            IF i + ShellGap <= n /\ Less(i + ShellGap, i) THEN s[i + ShellGap]
            ELSE IF i > ShellGap /\ Less(i, i - ShellGap) THEN s[i - ShellGap]
            ELSE s[i]]

\* the first n elements (all when n exceeds the length) of every slice that
\* sort.Slice may leave of s
SortSliceHeads(s, n) ==
    LET k == Min2(n, Len(s))
    IN  IF Len(s) <= ShellGap THEN {SubSeq(InsertionSort(s), 1, k)}
        ELSE IF Len(s) <= InsertionSortMax
        THEN {SubSeq(InsertionSort(s), 1, k),
              SubSeq(InsertionSort(ShellPass(s)), 1, k)}
        ELSE DescendingHeads(s, DOMAIN s, k)

\* every slice that sort.Slice may leave of s
SortSlice_Keep(s) == {s}

SortSlice(s) == SortSliceHeads(s, Len(s))

\* depth[pos] after the first loop of GetSquadDepth: the roster's players of
\* position pos, appended in roster order
DepthGroup(players, pos) ==
    LET At(p) == p.Position = pos
    IN  SelectSeq(players, At)

\* sort.Slice computes a function of the slice it is given (its only
\* pseudo-random choices are seeded with the slice's length): what it left
\* of a slice in an earlier call it leaves again.  SortedBefore is that
\* function as far as the calls made have shown it.
SortedBefore(made) ==
    UNION {{[in |-> DepthGroup(made[i].on, pos), out |-> made[i].map[pos]] :
               pos \in DOMAIN made[i].map} : i \in DOMAIN made}

\* every slice the second loop of GetSquadDepth may leave in depth[pos]
SortedGroup(players, made, pos) ==
    LET group == DepthGroup(players, pos)
        known == {m \in SortedBefore(made) : m.in = group}
    IN  IF known # {} THEN {m.out : m \in known} ELSE SortSlice(group)

\* the maps with the positions of todo for keys
RECURSIVE DepthMaps(_, _, _)
DepthMaps(players, made, todo) ==
    IF todo = {} THEN {<<>>}
    ELSE LET pos == CHOOSE x \in todo : TRUE
         IN  UNION {{(pos :> g) @@ m : g \in SortedGroup(players, made, pos)} :
                       m \in DepthMaps(players, made, todo \ {pos})}

\* SquadManager.GetSquadDepth: every map it may return, a function from the
\* positions present in the roster to the sorted groups
GetSquadDepth(players, made) ==
    DepthMaps(players, made, {players[i].Position : i \in DOMAIN players})

\* the first `count` entries of the slice SquadManager.getBestCandidates
\* returns (RecommendLineup reads no others): every value they may have
getBestCandidates(available, pos, used, count) ==
    LET Eligible(p) == p.ID \notin used /\ CanPlayPosition(p, pos)
        candidates == SelectSeq(available, Eligible)
    IN  SortSliceHeads(candidates, count)

\* SquadManager.selectCaptain: the identity chosen, 0 when it returns nil.
\* The score age + matches/10 is compared in tenths.
CaptainScore(p, t) == 10 * AgeAt(p, t) + p.TotalMatches

RECURSIVE MostExperienced(_, _, _, _, _)
MostExperienced(players, starters, t, bestScore, best) ==
    IF starters = <<>> THEN best
    ELSE LET id == Head(starters)
             score == IF HasPlayer(players, id)
                      THEN CaptainScore(GetPlayer(players, id), t) ELSE 0
         IN  IF HasPlayer(players, id) /\ score > bestScore
             THEN MostExperienced(players, Tail(starters), t, score, id)
             ELSE MostExperienced(players, Tail(starters), t, bestScore, best)

selectCaptain(players, captain, starters, t) ==
    IF captain # <<>> /\ captain[1] \in Range(starters)
    THEN captain[1]
    ELSE MostExperienced(players, starters, t, 0, 0)

\* used[candidates[i].ID] = true for the candidates taken
MarkUsed_Forget(used, taken) == used

MarkUsed(used, taken) == used \cup {taken[i].ID : i \in DOMAIN taken}

\* the loop of RecommendLineup over GK, DEF, MID, FWD: every value of
\* (Starters, Positions, used) it may end with
RECURSIVE FillPositions(_, _, _, _)
FillPositions(available, requirements, positions, acc) ==
    IF positions = <<>> THEN {acc}
    ELSE LET pos == Head(positions)
             heads == getBestCandidates(available, pos, acc.used,
                                        requirements[pos])
         IN  UNION {FillPositions(available, requirements, Tail(positions),
                        [Starters |-> acc.Starters \o [i \in DOMAIN h |-> h[i].ID],
                         Positions |-> acc.Positions \o [i \in DOMAIN h |-> pos],
                         used |-> MarkUsed(acc.used, h)]) :
                    h \in heads}

\* the loop of RecommendLineup over the available players that appends to
\* Substitutes those not used, while there are fewer than seven
FillSubstitutes_NoCap(available, used) ==
    LET Free(p) == p.ID \notin used
    IN  IdsOf(SelectSeq(available, Free))

FillSubstitutes(available, used) ==
    LET Free(p) == p.ID \notin used
        u == SelectSeq(available, Free)
    IN  [i \in 1..Min2(MaxSubstitutes, Len(u)) |-> u[i].ID]

\* SquadManager.RecommendLineup: every (lineup, error) it may return
RecommendLineup(players, captain, formation, t) ==
    LET available == GetAvailablePlayers(players)
        requirements == GetPositionRequirements(formation)
        filled == FillPositions(available, requirements, FourPositions,
                      [Starters |-> <<>>, Positions |-> <<>>, used |-> {}])
    IN  {IF Len(acc.Starters) < StartersCount
         THEN [lineup |-> NoLineup, err |-> ErrInsufficientPlayers]
         ELSE [lineup |-> MkLineup(formation, acc.Starters, acc.Positions,
                             FillSubstitutes(available, acc.used),
                             selectCaptain(players, captain, acc.Starters, t)),
               err |-> NoError] : acc \in filled}

---------------------------------------------------------------------------
(* The players a caller may hand to the model *)

\* NewPlayer of the kind's position, with the fields the kind changes
KindNames ==
    {"GK", "DEF", "DEFp", "DEFs", "MID", "MIDinj", "MIDtired", "MIDvet",
     "FWD", "FWDp"}

KindPosition(kind) ==
    CASE kind = "GK" -> PositionGK
      [] kind \in {"DEF", "DEFp", "DEFe", "DEFs", "DEFn"} -> PositionDEF
      [] kind \in {"MID", "MIDinj", "MIDtired", "MIDvet"} -> PositionMID
      [] OTHER -> PositionFWD

Kind(kind, id) ==
    LET p == NewPlayer(id, KindPosition(kind), BornYearsAgo(25))
    IN  CASE kind = "DEFp" -> [p EXCEPT !.Attributes.Passing = 65]
          [] kind = "DEFe" ->
               [p EXCEPT !.Attributes.Passing = PassingThreshold]
          [] kind = "DEFs" -> [p EXCEPT !.Attributes.Tackling = 80]
          [] kind = "DEFn" -> [p EXCEPT !.Attributes.Heading = 5 * id]
          [] kind = "MIDinj" -> [p EXCEPT !.Status = StatusInjured]
          [] kind = "MIDtired" ->
               [p EXCEPT !.Fitness = AvailableFitness * Milli - 1]
          [] kind = "MIDvet" ->
               [p EXCEPT !.DateOfBirth = BornYearsAgo(33), !.TotalMatches = 120]
          [] kind = "FWDp" -> [p EXCEPT !.Attributes.Passing = 61]
          [] OTHER -> p

\* the squad whose i-th player is of the i-th kind and has identity i
Squad(kinds) == [i \in DOMAIN kinds |-> Kind(kinds[i], i)]

Repeat(x, n) == [i \in 1..n |-> x]

\* an identity no roster of the model holds
StrangerID == SquadLimit + SquadLimit

\* the smallest identity above every identity of the roster
NextID(players) ==
    IF players = <<>> THEN 1
    ELSE 1 + (CHOOSE m \in {players[i].ID : i \in DOMAIN players} :
                \A i \in DOMAIN players : players[i].ID <= m)

\* the identities the callers of the model pass to AddPlayer, RemovePlayer
\* and the captaincy: the ends of the roster, fresh ones, the captains
RosterEnds(players) ==
    IF players = <<>> THEN {} ELSE {players[1].ID, players[Len(players)].ID}

RosterPicks(players) ==
    IF players = <<>> THEN {}
    ELSE RosterEnds(players) \cup {players[(Len(players) + 1) \div 2].ID}

AddIds(players) ==
    RosterEnds(players) \cup {NextID(players) + k : k \in 0..(MaxFreshIds - 1)}

RemoveIds(players, captain, vice) ==
    RosterEnds(players) \cup Range(captain) \cup Range(vice) \cup {StrangerID}

---------------------------------------------------------------------------
(* The last call and its result *)

\* what a call found when it was made: the roster's length, the captaincy,
\* and whether the identity passed was in the roster
MkPre(players, captain, vice, id) ==
    [len |-> Len(players), captain |-> captain, vice |-> vice,
     had |-> HasPlayer(players, id)]

NoPre == [len |-> 0, captain |-> <<>>, vice |-> <<>>, had |-> FALSE]

MkOp(name, id, formation, lineup, err, out, pre) ==
    [name |-> name, id |-> id, formation |-> formation, lineup |-> lineup,
     err |-> err, out |-> out, pre |-> pre]

Idle == MkOp("idle", 0, "", NoLineup, NoError, NoLineup, NoPre)

---------------------------------------------------------------------------
(* Actions on the team *)

\* NewTeam: an empty roster, no captain, the default formation
NewTeam ==
    /\ Players = <<>>
    /\ Captain = <<>>
    /\ ViceCaptain = <<>>
    /\ Formation = FormationDefault

AddPlayer(p) ==
    /\ op = Idle
    /\ LET r == AddPlayerResult(Players, p)
       IN  /\ Players' = r.players
           /\ op' = MkOp("AddPlayer", p.ID, "", NoLineup, r.err, NoLineup,
                        MkPre(Players, Captain, ViceCaptain, p.ID))
           /\ edits' = IF r.err = NoError THEN edits + 1 ELSE edits
    /\ UNCHANGED <<Captain, ViceCaptain, Formation, now, engineVars, depth>>

RemovePlayer(playerID) ==
    /\ op = Idle
    /\ LET r == RemovePlayerResult(Players, Captain, ViceCaptain, playerID)
       IN  /\ Players' = r.players
           /\ Captain' = r.captain
           /\ ViceCaptain' = r.vice
           /\ op' = MkOp("RemovePlayer", playerID, "", NoLineup, r.err, NoLineup,
                        MkPre(Players, Captain, ViceCaptain, playerID))
           /\ edits' = IF r.err = NoError THEN edits + 1 ELSE edits
    /\ UNCHANGED <<Formation, now, engineVars, depth>>

\* a caller's assignment to Team.Captain of a roster member's identity
SetCaptain(playerID) ==
    /\ op = Idle
    /\ HasPlayer(Players, playerID)
    /\ Captain # <<playerID>>
    /\ Captain' = <<playerID>>
    /\ UNCHANGED <<Players, ViceCaptain, Formation, op, edits, now, engineVars, depth>>

\* a caller's assignment to Team.ViceCaptain of a roster member's identity
SetViceCaptain(playerID) ==
    /\ op = Idle
    /\ HasPlayer(Players, playerID)
    /\ ViceCaptain # <<playerID>>
    /\ ViceCaptain' = <<playerID>>
    /\ UNCHANGED <<Players, Captain, Formation, op, edits, now, engineVars, depth>>

\* the caller has read the result of the last call
Return ==
    /\ op # Idle
    /\ op' = Idle
    /\ UNCHANGED <<Players, Captain, ViceCaptain, Formation, edits, now, engineVars, depth>>

CallValidateLineup(lineup) ==
    /\ op = Idle
    /\ \E e \in ValidateLineup(Players, lineup) :
          op' = MkOp("ValidateLineup", 0, "", lineup, e, NoLineup, NoPre)
    /\ UNCHANGED <<Players, Captain, ViceCaptain, Formation, edits, now, engineVars, depth>>

CallRecommendLineup(formation) ==
    /\ op = Idle
    /\ \E r \in RecommendLineup(Players, Captain, formation, now) :
          op' = MkOp("RecommendLineup", 0, formation, NoLineup, r.err, r.lineup,
                     NoPre)
    /\ UNCHANGED <<Players, Captain, ViceCaptain, Formation, edits, now, engineVars, depth>>

\* a caller hands the lineup RecommendLineup has just returned to
\* ValidateLineup of the same team
CallValidateRecommended ==
    /\ op.name = "RecommendLineup"
    /\ op.err = NoError
    /\ \E e \in ValidateLineup(Players, op.out) :
          op' = MkOp("ValidateLineup", 0, op.formation, op.out, e, NoLineup, NoPre)
    /\ UNCHANGED <<Players, Captain, ViceCaptain, Formation, edits, now, engineVars, depth>>

\* GetBestEleven reads the roster and the team's formation; op.out holds the
\* identities of the players returned and the position each was taken for
CallGetBestEleven ==
    /\ op = Idle
    /\ \E r \in GetBestEleven(Players, Formation) :
          op' = MkOp("GetBestEleven", 0, Formation, NoLineup, NoError,
                     MkLineup(Formation, IdsOf(r.players), r.positions, <<>>, 0),
                     NoPre)
    /\ UNCHANGED <<Players, Captain, ViceCaptain, Formation, edits, now, engineVars, depth>>

\* GetSquadDepth reads the roster and writes only the map it returns
CallGetSquadDepth ==
    /\ op = Idle
    /\ \E d \in GetSquadDepth(Players, depth) :
          depth' = Append(depth, [on |-> Players, map |-> d])
    /\ op' = MkOp("GetSquadDepth", 0, "", NoLineup, NoError, NoLineup, NoPre)
    /\ UNCHANGED <<Players, Captain, ViceCaptain, Formation, edits, now, engineVars>>

---------------------------------------------------------------------------
(* The lineups and formations a caller may pass *)

InvalidFormation == "3-4-3"

FormationInputs == ValidFormations \cup {InvalidFormation}

\* a Position value outside the four named ones
PositionOther == "SW"

\* s without the n elements that start at index j
DropWindow(s, j, n) == SubSeq(s, 1, j - 1) \o SubSeq(s, j + n, Len(s))

\* starters taken from the roster in roster order: all of it when it holds
\* at most StartersCount players, else all but a run of consecutive players
\* at its start, in its middle or at its end
RosterStarters(players) ==
    LET ids == IdsOf(players)
        extra == Len(ids) - StartersCount
    IN  IF extra <= 0 THEN {ids}
        ELSE {DropWindow(ids, j, extra) :
                 j \in {1, (StartersCount + 1) \div 2, StartersCount + 1}}

\* starters lists that are wrong in themselves: an identity twice, an
\* identity of no roster player, too few, too many
OddStarters(players) ==
    LET ids == IdsOf(players)
        b == SubSeq(ids, 1, Min2(StartersCount, Len(ids)))
    IN  (IF Len(b) >= 2
         THEN {[b EXCEPT ![2] = b[1]], [b EXCEPT ![1] = StrangerID],
               SubSeq(b, 1, Len(b) - 1)}
         ELSE {})
        \cup (IF Len(b) >= 3 THEN {[b EXCEPT ![3] = b[2]]} ELSE {})
        \cup (IF Len(ids) > StartersCount
              THEN {SubSeq(ids, 1, StartersCount + 1)} ELSE {})

\* each starter in the position of the player (MID for an unknown identity)
NaturalPositions(players, starters) ==
    [i \in DOMAIN starters |->
        IF HasPlayer(players, starters[i])
        THEN GetPlayer(players, starters[i]).Position ELSE PositionMID]

\* the natural positions with one slot moved to another position
OneSlotMoved(natural) ==
    {[natural EXCEPT ![i] = q] : i \in DOMAIN natural, q \in Range(FourPositions)}
    \cup (IF natural = <<>> THEN {} ELSE {[natural EXCEPT ![1] = PositionOther]})

\* Positions lists shorter and longer than the Starters list
OddPositions(natural) ==
    IF natural = <<>> THEN {}
    ELSE {SubSeq(natural, 1, Len(natural) - 1), Append(natural, PositionGK)}

\* the natural positions with the first slot moved
FirstSlotMoved(natural) ==
    IF natural = <<>> THEN {}
    ELSE {[natural EXCEPT ![1] = q] :
             q \in Range(FourPositions) \cup {PositionOther}}

\* the formations the lineups with a Positions list of another length are
\* validated against
MovedFormations == {Formation442, Formation352, InvalidFormation}

LineupInputs(players) ==
    {MkLineup(f, s, NaturalPositions(players, s), <<>>, 0) :
        f \in FormationInputs, s \in RosterStarters(players)}
    \cup UNION {{MkLineup(f, s, pz, <<>>, 0) :
                    f \in {Formation352},
                    pz \in OneSlotMoved(NaturalPositions(players, s))} :
                s \in RosterStarters(players)}
    \cup UNION {{MkLineup(f, s, pz, <<>>, 0) :
                    f \in {Formation442, InvalidFormation},
                    pz \in FirstSlotMoved(NaturalPositions(players, s))} :
                s \in RosterStarters(players)}
    \cup UNION {{MkLineup(f, s, pz, <<>>, 0) :
                    f \in MovedFormations,
                    pz \in OddPositions(NaturalPositions(players, s))} :
                s \in RosterStarters(players)}
    \cup {MkLineup(f, s, NaturalPositions(players, s), <<>>, 0) :
            f \in {Formation442, InvalidFormation}, s \in OddStarters(players)}

---------------------------------------------------------------------------
(* The lineup model: RecommendLineup and ValidateLineup on a squad *)

\* The squads a run starts from: the team NewTeam made, and teams that
\* AddPlayer calls have filled since.
\*   - eleven players NewPlayer made: 1 GK, 4 DEF, 4 MID, 2 FWD
\*   - the same with two strong defenders, one who passes well and one
\*     whose Passing is at the threshold
\*   - the same with one midfielder short of fitness
\*   - fourteen players, twelve of them candidates for DEF
InitSquads ==
    {<<>>,
     Squad(<<"GK">> \o Repeat("DEF", 4) \o Repeat("MID", 4) \o Repeat("FWD", 2)),
     Squad(<<"GK", "DEFp", "DEFe">> \o Repeat("DEFs", 2) \o Repeat("MID", 4)
           \o Repeat("FWD", 2)),
     Squad(<<"GK">> \o Repeat("DEFs", 4) \o Repeat("MID", 3) \o <<"MIDtired">>
           \o Repeat("FWD", 2)),
     Squad(<<"GK">> \o Repeat("DEFs", 4) \o <<"DEF">> \o Repeat("MID", 6)
           \o <<"MIDvet", "FWD">>)}

LineupInit ==
    /\ Players \in InitSquads
    /\ Captain = <<>>
    /\ ViceCaptain = <<>>
    /\ Formation = FormationDefault
    /\ op = Idle
    /\ edits = 0
    /\ now = StartClock
    /\ NoEngines
    /\ depth = <<>>

LineupNext ==
    \/ op = Idle /\ edits < MaxEdits /\ \E kind \in KindNames :
          AddPlayer(Kind(kind, NextID(Players)))
    \/ op = Idle /\ edits < MaxEdits /\ \E id \in RosterEnds(Players) :
          AddPlayer(Kind("MID", id))
    \/ op = Idle /\ edits < MaxEdits
          /\ \E id \in RosterPicks(Players) \cup {StrangerID} : RemovePlayer(id)
    \/ op = Idle /\ \E f \in FormationInputs : CallRecommendLineup(f)
    \/ op = Idle /\ \E lineup \in LineupInputs(Players) : CallValidateLineup(lineup)
    \/ Return

SpecLineup == LineupInit /\ [][LineupNext]_vars

---------------------------------------------------------------------------
(* What the specification says of lineups, stated without the code *)

\* position eligibility: own position; a MID also DEF and FWD; a DEF or a
\* FWD also MID when Passing exceeds 60
SpecEligible(own, slot, passing) ==
    \/ own = slot
    \/ own = "MID" /\ slot \in {"DEF", "FWD"}
    \/ own \in {"DEF", "FWD"} /\ slot = "MID" /\ passing > 60

\* availability: status available and fitness at least 70
SpecAvailable(p) == p.Status = "available" /\ p.Fitness >= 70 * Milli

\* the roster player of this identity, when the roster has one
IsMember(players, id) == \E k \in DOMAIN players : players[k].ID = id
Member(players, id) == players[CHOOSE k \in DOMAIN players : players[k].ID = id]

\* the starters' slots assigned position pos
SlotsAt(lineup, pos) ==
    {i \in DOMAIN lineup.Starters :
        i <= Len(lineup.Positions) /\ lineup.Positions[i] = pos}

\* slot i of the lineup holds a player eligible for the position assigned
SlotEligible(players, lineup, i) ==
    /\ i <= Len(lineup.Positions)
    /\ IsMember(players, lineup.Starters[i])
    /\ LET p == Member(players, lineup.Starters[i])
       IN  SpecEligible(p.Position, lineup.Positions[i], p.Attributes.Passing)

\* every condition of a valid lineup but the eligibility of the slots in skip
ValidBut(players, lineup, skip) ==
    /\ Len(lineup.Starters) = 11
    /\ \A i \in DOMAIN lineup.Starters :
          /\ IsMember(players, lineup.Starters[i])
          /\ SpecAvailable(Member(players, lineup.Starters[i]))
    /\ lineup.Formation \in {"4-4-2", "4-3-3", "4-5-1", "3-5-2", "5-3-2",
                             "4-2-3-1", "4-3-1-2"}
    /\ \A i \in DOMAIN lineup.Starters \ skip : SlotEligible(players, lineup, i)
    /\ \A pos \in {"GK", "DEF", "MID", "FWD"} :
          Cardinality(SlotsAt(lineup, pos))
             = GetPositionRequirements(lineup.Formation)[pos]

\* Some eleven of these players fill gk GK, def DEF, mid MID and fwd FWD
\* slots, each in a position it is eligible for.  Players of one position
\* that are alike in Passing > 60 are interchangeable, so it is enough to
\* count: d DEF players and f FWD players stay in their lines, midfielders
\* fill the rest of those lines, and the midfield takes the midfielders left
\* and the passers among the DEF and FWD players left (the lines are filled
\* with the non-passers first).
CanFill(avail, gk, def, mid, fwd) ==
    LET N(pos, passer) ==
            Cardinality({i \in DOMAIN avail :
                /\ avail[i].Position = pos
                /\ (avail[i].Attributes.Passing > 60) = passer})
        D0 == N("DEF", FALSE)
        D1 == N("DEF", TRUE)
        F0 == N("FWD", FALSE)
        F1 == N("FWD", TRUE)
        M == N("MID", FALSE) + N("MID", TRUE)
        G == N("GK", FALSE) + N("GK", TRUE)
    IN  /\ G >= gk
        /\ \E d \in 0..def, f \in 0..fwd :
              /\ d <= D0 + D1
              /\ f <= F0 + F1
              /\ (def - d) + (fwd - f) <= M
              /\ (M - (def - d) - (fwd - f))
                   + (D1 - Max2(0, d - D0)) + (F1 - Max2(0, f - F0)) >= mid

---------------------------------------------------------------------------
(* Claims on RecommendLineup and ValidateLineup *)

\* C1: on every team whose available players can fill a 4-4-2,
\* RecommendLineup(4-4-2) succeeds and returns eleven starters assigned
\* 1 GK, 4 DEF, 4 MID and 2 FWD, and a captain that is not empty.
C1_RecommendFills442 ==
    (/\ op.name = "RecommendLineup"
     /\ op.formation = "4-4-2"
     /\ CanFill(SelectSeq(Players, SpecAvailable), 1, 4, 4, 2))
    => /\ op.err = NoError
       /\ Len(op.out.Starters) = 11
       /\ Cardinality(SlotsAt(op.out, "GK")) = 1
       /\ Cardinality(SlotsAt(op.out, "DEF")) = 4
       /\ Cardinality(SlotsAt(op.out, "MID")) = 4
       /\ Cardinality(SlotsAt(op.out, "FWD")) = 2
       /\ op.out.Captain # 0

\* C2: on a team with fewer than eleven available players RecommendLineup
\* returns ErrInsufficientPlayers and no lineup, whatever the formation.
C2_TooFewAvailable ==
    (/\ op.name = "RecommendLineup"
     /\ Len(SelectSeq(Players, SpecAvailable)) < 11)
    => /\ op.err = ErrInsufficientPlayers
       /\ op.out = NoLineup

\* a roster of at least eleven players, fewer than eleven of them available,
\* has been refused a lineup
C2_Witness ==
    /\ op.name = "RecommendLineup"
    /\ Len(Players) >= 11
    /\ Len(SelectSeq(Players, SpecAvailable)) = 10
    /\ op.err = ErrInsufficientPlayers

\* C3: ValidateLineup returns no error exactly when the lineup has eleven
\* starters, each an available roster member, its formation is one of the
\* seven, each starter is eligible for the position assigned to it, and the
\* starters assigned to each position are as many as the formation requires.
C3_ValidIffConditions ==
    op.name = "ValidateLineup" =>
        (op.err = NoError <=> ValidBut(Players, op.lineup, {}))

\* a lineup of eleven available roster players has been accepted for 4-3-3
C3_Witness ==
    /\ op.name = "ValidateLineup"
    /\ op.err = NoError
    /\ op.lineup.Formation = "4-3-3"

\* C4: in a lineup that meets every other condition, the starter of slot i,
\* whose own position is P and who is assigned Q, is accepted exactly when
\* SpecEligible(P, Q, Passing); when it is not, the error is the position
\* mismatch naming that player and Q.
C4_EligibilityDecides ==
    op.name = "ValidateLineup" =>
        \A i \in DOMAIN op.lineup.Starters :
            (/\ i <= Len(op.lineup.Positions)
             /\ ValidBut(Players, op.lineup, {i}))
            => IF SlotEligible(Players, op.lineup, i)
               THEN op.err = NoError
               ELSE op.err = ErrCannotPlay(op.lineup.Starters[i],
                                           op.lineup.Positions[i])

\* a defender with Passing above 60 has been accepted in midfield
C4_Witness ==
    /\ op.name = "ValidateLineup"
    /\ op.err = NoError
    /\ \E i \in DOMAIN op.lineup.Starters :
          /\ Member(Players, op.lineup.Starters[i]).Position = "DEF"
          /\ op.lineup.Positions[i] = "MID"

\* C11: ValidateLineup returns, with an error or without one, whatever the
\* lengths of Starters and Positions and whatever the starters are: no call
\* ends in a run-time panic.
C11_ValidateLineupReturns ==
    op.name = "ValidateLineup" => op.err # PanicIndexOutOfRange

\* the first slot whose starter is no roster player or is not available,
\* 0 when there is none
FirstFailingStarter(players, lineup) ==
    LET bad == {i \in DOMAIN lineup.Starters :
                   \/ ~IsMember(players, lineup.Starters[i])
                   \/ ~SpecAvailable(Member(players, lineup.Starters[i]))}
    IN  IF bad = {} THEN 0 ELSE CHOOSE i \in bad : \A j \in bad : i <= j

StageCodes ==
    {"INSUFFICIENT_PLAYERS", "PLAYER_NOT_FOUND", "PLAYER_UNAVAILABLE",
     "INVALID_FORMATION"}

\* C21: ValidateLineup accepts a lineup only if its starter identities are
\* pairwise distinct: a lineup in which one roster player holds two or more
\* starter slots is rejected.
C21_StartersDistinct ==
    (op.name = "ValidateLineup" /\ op.err = NoError)
        => \A i, j \in DOMAIN op.lineup.Starters :
              op.lineup.Starters[i] = op.lineup.Starters[j] => i = j

\* C13, as the code has it: ValidateLineup reports the first failing stage in
\* this order: (1) a lineup without exactly eleven starters fails with
\* insufficient-players; (2) otherwise the first starter, in lineup order,
\* that is no roster player or is not available decides: player-not-found
\* when it is no roster player, player-unavailable when it is not available,
\* even when the formation is invalid or the positions mismatch; (3)
\* otherwise an invalid formation fails with invalid-formation; (4) only
\* then are the positions read, and the call ends with none of these four
\* errors.
C13_StageOrder ==
    op.name = "ValidateLineup" =>
        LET lineup == op.lineup
            i == FirstFailingStarter(Players, lineup)
        IN  IF Len(lineup.Starters) # 11
            THEN op.err = ErrInsufficientPlayers
            ELSE IF i # 0
            THEN IF IsMember(Players, lineup.Starters[i])
                 THEN op.err = ErrPlayerUnavailable
                 ELSE op.err = ErrPlayerNotFound
            ELSE IF lineup.Formation \notin
                        {"4-4-2", "4-3-3", "4-5-1", "3-5-2", "5-3-2",
                         "4-2-3-1", "4-3-1-2"}
            THEN op.err = ErrInvalidFormation
            ELSE op.err.code \notin StageCodes

\* a lineup of eleven roster players, one of them short of fitness, has been
\* refused as player-unavailable although its formation is not one of the
\* seven
C13_Witness ==
    /\ op.name = "ValidateLineup"
    /\ Len(op.lineup.Starters) = 11
    /\ \A i \in DOMAIN op.lineup.Starters : IsMember(Players, op.lineup.Starters[i])
    /\ op.lineup.Formation = "3-4-3"
    /\ op.err = ErrPlayerUnavailable

\* C13, as stated: a lineup of eleven starters, one of which is a roster
\* player that is not available, fails with player-unavailable.
C13_UnavailableDecides ==
    (/\ op.name = "ValidateLineup"
     /\ Len(op.lineup.Starters) = 11
     /\ \E i \in DOMAIN op.lineup.Starters :
           /\ IsMember(Players, op.lineup.Starters[i])
           /\ ~SpecAvailable(Member(Players, op.lineup.Starters[i])))
    => op.err = ErrPlayerUnavailable

---------------------------------------------------------------------------
(* The depth model: GetSquadDepth on a roster under AddPlayer and *)
(* RemovePlayer                                                    *)

MaxDepthCalls == 2

\* The rosters a run starts from:
\*   - the empty one
\*   - one of every position, the defenders not in descending order
\*   - seven defenders, the strongest last, the others of equal rating
\*   - thirteen defenders, three of them of equal rating
DepthSquads ==
    {<<>>,
     Squad(<<"GK", "DEF", "DEFs", "DEF", "MID", "MIDvet", "FWD", "FWDp">>),
     Squad(Repeat("DEF", 6) \o <<"DEFs", "MID">>),
     Squad(<<"DEF">> \o Repeat("DEFn", 5) \o <<"DEF">> \o Repeat("DEFn", 5)
           \o <<"DEF", "GK">>)}

DepthInit ==
    /\ Players \in DepthSquads
    /\ Captain = <<>>
    /\ ViceCaptain = <<>>
    /\ Formation = FormationDefault
    /\ op = Idle
    /\ edits = 0
    /\ now = StartClock
    /\ NoEngines
    /\ depth = <<>>

DepthNext ==
    \/ op = Idle /\ edits < MaxEdits /\ \E kind \in {"DEFs", "MID"} :
          AddPlayer(Kind(kind, NextID(Players)))
    \/ op = Idle /\ edits < MaxEdits /\ \E id \in RosterPicks(Players) :
          RemovePlayer(id)
    \/ Len(depth) < MaxDepthCalls /\ CallGetSquadDepth
    \/ Return

SpecDepth == DepthInit /\ [][DepthNext]_vars

\* the group is in descending order of rating
Descending(group) ==
    \A k \in 1..(Len(group) - 1) :
        GetOverallRating(group[k]) >= GetOverallRating(group[k + 1])

\* the group holds each of the players once, and no other
HoldsExactly(group, players) ==
    /\ Range(group) = players
    /\ Len(group) = Cardinality(players)

---------------------------------------------------------------------------
(* The selection model: RecommendLineup on a team with a captain, and *)
(* ValidateLineup of what it returns                                  *)

\* the players as NewPlayer makes them when born on the day of the call
BornToday(players) ==
    [i \in DOMAIN players |-> [players[i] EXCEPT !.DateOfBirth = StartClock]]

\* The squads a run starts from:
\*   - eleven players: 1 GK, 4 strong DEF, 4 MID, 2 FWD
\*   - the same eleven, each born on the day of the call
\*   - fourteen players, eleven of them candidates for DEF: one DEF of
\*     rating 66 ahead of ten MID of rating 67
\*   - fifteen players, thirteen of them candidates for DEF
\*   - twenty-two players, three of them not available
PickSquads ==
    {Squad(<<"GK">> \o Repeat("DEFs", 4) \o Repeat("MID", 4) \o Repeat("FWD", 2)),
     BornToday(Squad(<<"GK">> \o Repeat("DEFs", 4) \o Repeat("MID", 4)
                     \o Repeat("FWD", 2))),
     Squad(<<"GK", "DEF">> \o Repeat("MID", 10) \o Repeat("FWD", 2)),
     Squad(<<"GK">> \o Repeat("DEFs", 4) \o <<"DEF">> \o Repeat("MID", 7)
           \o <<"MIDvet", "FWD">>),
     Squad(<<"MIDinj", "GK">> \o Repeat("DEFs", 4) \o <<"FWDp", "MIDtired">>
           \o Repeat("MID", 4) \o <<"GK", "FWD", "MIDinj", "DEFp", "FWD">>
           \o Repeat("DEF", 4) \o <<"MIDvet">>)}

PickInit ==
    /\ Players \in PickSquads
    /\ Captain = <<>>
    /\ ViceCaptain = <<>>
    /\ Formation = FormationDefault
    /\ op = Idle
    /\ edits = 0
    /\ now = StartClock
    /\ NoEngines
    /\ depth = <<>>

PickNext ==
    \/ op = Idle /\ Captain = <<>>
          /\ \E id \in Range(IdsOf(Players)) : SetCaptain(id)
    \/ op = Idle /\ \E f \in FormationInputs : CallRecommendLineup(f)
    \/ CallValidateRecommended
    \/ Return

SpecPick == PickInit /\ [][PickNext]_vars

\* the starters of the lineup assigned pos, in the lineup's order
StartersAt(lineup, pos) ==
    LET At(i) == lineup.Positions[i] = pos
        slots == SelectSeq([i \in DOMAIN lineup.Starters |-> i], At)
    IN  [k \in DOMAIN slots |-> lineup.Starters[slots[k]]]

\* player a comes before player b in descending rating, equal ratings in
\* roster order
RankedBefore(players, a, b) ==
    LET pa == Member(players, a)
        pb == Member(players, b)
    IN  \/ GetOverallRating(pa) > GetOverallRating(pb)
        \/ /\ GetOverallRating(pa) = GetOverallRating(pb)
           /\ IndexOfPlayer(players, a) < IndexOfPlayer(players, b)

\* the available players eligible for the k-th of the four positions and
\* not among the starters of an earlier one
CandidatesAt(players, lineup, k) ==
    LET earlier == UNION {Range(StartersAt(lineup, FourPositions[j])) :
                             j \in 1..(k - 1)}
    IN  {p.ID : p \in {q \in Range(players) :
                          /\ SpecAvailable(q)
                          /\ q.ID \notin earlier
                          /\ SpecEligible(q.Position, FourPositions[k],
                                          q.Attributes.Passing)}}

\* C14: in a lineup RecommendLineup returns the slots run GK, DEF, MID, FWD;
\* the starters of a position are as many as the formation requires, they
\* are candidates of the position (available, eligible, starting at no
\* earlier position), they are listed in descending rating with equal
\* ratings in roster order, every candidate left out comes after each of them
\* in that order, and no player starts twice.
C14_BestByRatingThenRoster ==
    (op.name = "RecommendLineup" /\ op.err = NoError) =>
        LET lineup == op.out
            required == GetPositionRequirements(lineup.Formation)
        IN  /\ lineup.Positions
                  = Repeat("GK", required["GK"]) \o Repeat("DEF", required["DEF"])
                    \o Repeat("MID", required["MID"])
                    \o Repeat("FWD", required["FWD"])
            /\ Cardinality(Range(lineup.Starters)) = Len(lineup.Starters)
            /\ \A k \in DOMAIN FourPositions :
                  LET chosen == StartersAt(lineup, FourPositions[k])
                      cands == CandidatesAt(Players, lineup, k)
                  IN  /\ Range(chosen) \subseteq cands
                      /\ \A i \in 1..(Len(chosen) - 1) :
                            RankedBefore(Players, chosen[i], chosen[i + 1])
                      /\ \A c \in cands \ Range(chosen) :
                            \A i \in DOMAIN chosen :
                               RankedBefore(Players, chosen[i], c)

\* age + totalCareerMatches / 10 of the roster player id, in tenths
Experience(players, id, t) ==
    LET p == Member(players, id)
    IN  10 * AgeAt(p, t) + p.TotalMatches

\* C15: the captain of a lineup RecommendLineup returns is one of its
\* starters: the team's captain when that player starts, otherwise the
\* starter of greatest age + totalCareerMatches / 10, the earliest of them
\* in starter order.
C15_CaptainAmongStarters ==
    (op.name = "RecommendLineup" /\ op.err = NoError) =>
        LET st == op.out.Starters
        IN  /\ op.out.Captain \in Range(st)
            /\ IF Captain # <<>> /\ Captain[1] \in Range(st)
               THEN op.out.Captain = Captain[1]
               ELSE \E k \in DOMAIN st :
                       /\ st[k] = op.out.Captain
                       /\ \A j \in DOMAIN st :
                             /\ Experience(Players, st[j], now)
                                   <= Experience(Players, st[k], now)
                             /\ j < k => Experience(Players, st[j], now)
                                           < Experience(Players, st[k], now)

\* C16: the substitutes of a lineup RecommendLineup returns are the first
\* min(7, k) of the k available players that do not start, in roster order.
C16_SubstitutesInRosterOrder ==
    (op.name = "RecommendLineup" /\ op.err = NoError) =>
        LET Spare(p) == SpecAvailable(p) /\ p.ID \notin Range(op.out.Starters)
            rest == SelectSeq(Players, Spare)
            n == IF Len(rest) < 7 THEN Len(rest) ELSE 7
        IN  /\ op.out.Substitutes = [i \in 1..n |-> rest[i].ID]
            /\ Len(op.out.Substitutes) <= 7
            /\ Range(op.out.Substitutes) \cap Range(op.out.Starters) = {}

\* a lineup has been returned with seven substitutes, fewer than the
\* available players that do not start, not in descending rating, and with a
\* player that is not available passed over between two of them
C16_Witness ==
    /\ op.name = "RecommendLineup"
    /\ op.err = NoError
    /\ Len(op.out.Substitutes) = 7
    /\ Cardinality({p \in Range(Players) : SpecAvailable(p)}) > 11 + 7
    /\ \E i \in 1..6 :
          GetOverallRating(Member(Players, op.out.Substitutes[i]))
             < GetOverallRating(Member(Players, op.out.Substitutes[i + 1]))
    /\ \E i \in 1..6 : \E q \in Range(Players) :
          /\ ~SpecAvailable(q)
          /\ IndexOfPlayer(Players, op.out.Substitutes[i])
                < IndexOfPlayer(Players, q.ID)
          /\ IndexOfPlayer(Players, q.ID)
                < IndexOfPlayer(Players, op.out.Substitutes[i + 1])

\* C20: ValidateLineup accepts every lineup that RecommendLineup has
\* returned for the same team (in this model ValidateLineup is called on
\* such lineups only).
C20_RecommendedIsValid ==
    op.name = "ValidateLineup" => op.err = NoError

---------------------------------------------------------------------------
(* The best-eleven model: GetBestEleven on a team in its formation *)

\* The squads a run starts from:
\*   - eleven players NewPlayer made: 1 GK, 4 DEF, 4 MID, 2 FWD
\*   - eleven players without a midfielder: 1 GK, 5 DEF, 5 FWD
\*   - twelve players, ten of them available
\*   - fourteen players, a strong defender and a passing forward late in
\*     the roster
ElevenSquads ==
    {Squad(<<"GK">> \o Repeat("DEF", 4) \o Repeat("MID", 4) \o Repeat("FWD", 2)),
     Squad(<<"GK">> \o Repeat("DEF", 5) \o Repeat("FWD", 5)),
     Squad(<<"GK", "MIDinj">> \o Repeat("DEF", 4) \o Repeat("MID", 3)
           \o <<"MIDtired">> \o Repeat("FWD", 2)),
     Squad(<<"FWD", "GK", "MID">> \o Repeat("DEF", 4) \o Repeat("MID", 3)
           \o <<"FWD", "DEFs", "FWDp", "GK">>)}

ElevenInit ==
    /\ Players \in ElevenSquads
    /\ Captain = <<>>
    /\ ViceCaptain = <<>>
    /\ Formation = FormationDefault
    /\ op = Idle
    /\ edits = 0
    /\ now = StartClock
    /\ NoEngines
    /\ depth = <<>>

ElevenNext ==
    \/ op = Idle /\ edits < MaxEdits /\ \E kind \in KindNames :
          AddPlayer(Kind(kind, NextID(Players)))
    \/ op = Idle /\ edits < MaxEdits
          /\ \E id \in RosterPicks(Players) : RemovePlayer(id)
    \/ CallGetBestEleven
    \/ Return

SpecEleven == ElevenInit /\ [][ElevenNext]_vars

\* the first n players of the roster that are available and eligible for pos
FirstEligible(players, pos, n) ==
    LET Fit(p) == SpecAvailable(p)
                    /\ SpecEligible(p.Position, pos, p.Attributes.Passing)
        fit == SelectSeq(players, Fit)
    IN  IdsOf(SubSeq(fit, 1, Min2(n, Len(fit))))

\* C22: GetBestEleven returns at most eleven players and no player more
\* than once; when at least eleven players are available it returns, for
\* each position of the team's formation, the first N available players in
\* roster order that are eligible for it, N being what the formation
\* requires.
C22_BestElevenDistinct ==
    op.name = "GetBestEleven" =>
        LET ids == op.out.Starters
        IN  /\ Len(ids) <= 11
            /\ \A i, j \in DOMAIN ids : ids[i] = ids[j] => i = j
            /\ Len(SelectSeq(Players, SpecAvailable)) >= 11
                  => \A pos \in Range(FourPositions) :
                        StartersAt(op.out, pos)
                          = FirstEligible(Players, pos,
                                GetPositionRequirements(Formation)[pos])

---------------------------------------------------------------------------
(* The squad model: a roster under AddPlayer and RemovePlayer *)

\* A team NewTeam made, or one that SquadLimit - 2 AddPlayer calls have
\* filled since.
SquadInit ==
    /\ Players \in {<<>>, Squad(Repeat("MID", SquadLimit - 2))}
    /\ Captain = <<>>
    /\ ViceCaptain = <<>>
    /\ Formation = FormationDefault
    /\ op = Idle
    /\ edits = 0
    /\ now = StartClock
    /\ NoEngines
    /\ depth = <<>>

SquadNext ==
    \/ op = Idle /\ edits < MaxSquadEdits /\ \E id \in AddIds(Players) :
          AddPlayer(Kind("MID", id))
    \/ op = Idle /\ edits < MaxSquadEdits
          /\ \E id \in RemoveIds(Players, Captain, ViceCaptain) : RemovePlayer(id)
    \/ \E id \in RosterEnds(Players) : SetCaptain(id)
    \/ \E id \in RosterEnds(Players) : SetViceCaptain(id)
    \/ Return

SpecSquad == SquadInit /\ [][SquadNext]_vars

\* C8: the captain and the vice-captain, when set, reference a player of the
\* roster, and a RemovePlayer that removed the captain (the vice-captain)
\* left that reference unset.
RefInRoster(ref) == ref = <<>> \/ HasPlayer(Players, ref[1])

C8_CaptaincyInRoster ==
    /\ RefInRoster(Captain)
    /\ RefInRoster(ViceCaptain)
    /\ (op.name = "RemovePlayer" /\ op.err = NoError) =>
          /\ op.pre.captain = <<op.id>> => Captain = <<>>
          /\ op.pre.vice = <<op.id>> => ViceCaptain = <<>>

\* a RemovePlayer has just removed the player who was captain, while another
\* player stays vice-captain
C8_Witness ==
    /\ op.name = "RemovePlayer"
    /\ op.err = NoError
    /\ op.pre.captain = <<op.id>>
    /\ Captain = <<>>
    /\ ViceCaptain # <<>>
    /\ HasPlayer(Players, ViceCaptain[1])

\* C9: the roster never holds more than SquadLimit players nor two players
\* of one identity, and an AddPlayer that found the roster full, or found
\* the identity in it, returned an error and left the roster as it was.
UniqueIds(players) ==
    \A i, j \in DOMAIN players : players[i].ID = players[j].ID => i = j

C9_RosterBounded ==
    /\ Len(Players) <= SquadLimit
    /\ UniqueIds(Players)
    /\ (op.name = "AddPlayer" /\ (op.pre.len >= SquadLimit \/ op.pre.had)) =>
          /\ op.err # NoError
          /\ Len(Players) = op.pre.len

\* an AddPlayer has just been refused by a full roster
C9_Witness ==
    /\ op.name = "AddPlayer"
    /\ op.pre.len = SquadLimit
    /\ ~op.pre.had
    /\ op.err = ErrSquadFull
    /\ Len(Players) = SquadLimit

---------------------------------------------------------------------------
(* The players handed to the engines and the arguments of the calls *)

\* a date of birth that makes a player `age` years old when a run starts
\* and a year older the day after
BirthdayTomorrow(age) ==
    [year |-> StartClock.year - age - 1, yday |-> StartClock.yday + 1]

AllAttributes(v) == [a \in DOMAIN NewDefaultAttributes(PositionGK) |-> v]

FitnessSubjects == {"MID", "MIDspent", "FWD20", "DEFvet"}
DevSubjects == {"FWD20", "GK94", "GKtop", "DEFvet"}
TwinSubjects == {"FWD20", "GK94"}

Subject(name) ==
    CASE name = "MID" -> NewPlayer(1, PositionMID, BornYearsAgo(25))
      [] name = "FWD20" -> NewPlayer(1, PositionFWD, BirthdayTomorrow(20))
      [] name = "GK94" ->
           [NewPlayer(1, PositionGK, BornYearsAgo(25)) EXCEPT
              !.Attributes = [AllAttributes(100) EXCEPT !.Keeping = 94]]
      [] name = "GKtop" ->
           [NewPlayer(1, PositionGK, BirthdayTomorrow(20)) EXCEPT
              !.Attributes = AllAttributes(100)]
      [] name = "DEFvet" ->
           [NewPlayer(1, PositionDEF, BornYearsAgo(33)) EXCEPT
              !.Attributes = AllAttributes(0)]
      [] name = "MIDspent" ->
           [NewPlayer(1, PositionMID, BornYearsAgo(25)) EXCEPT !.Fitness = 0]

\* training types, the last of them none of the five named ones
TrainingTypes ==
    {TrainingGeneral, TrainingTechnical, TrainingPhysical, TrainingTactical,
     TrainingSetPieces, "recovery"}

\* intensities, in tenths
TrainingIntensities == {5, 8, 10}
MatchIntensities == {-10, 10, 15}
RecoveryIntensities == {0, 5, 10, 25}
MinutesPlayed == {0, 45, 90}

\* an empty team beside the engines
NoTeam ==
    /\ NewTeam
    /\ op = Idle
    /\ edits = 0
    /\ depth = <<>>

\* n engines, each handed its own copy of the player p
Engines(n, p) ==
    /\ subject = [e \in 1..n |-> p]
    /\ session = [e \in 1..n |-> MkSession("", "", 0, 0, NoResult, p)]
    /\ tape = <<>>
    /\ cursor = [e \in 1..n |-> 0]
    /\ script = <<>>
    /\ calls = 0
    /\ ticks = 0

InRange(x) == 0 <= x /\ x <= 100

---------------------------------------------------------------------------
(* The fitness model: one player under the fitness engine *)

FitnessInit ==
    /\ NoTeam
    /\ now = StartClock
    /\ \E name \in FitnessSubjects : Engines(1, Subject(name))

FitnessNext ==
    \/ calls < MaxCalls /\ \E m \in MinutesPlayed, i \in MatchIntensities :
          ApplyMatchFitness(1, m, i)
    \/ calls < MaxCalls /\ \E i \in RecoveryIntensities :
          ApplyDailyRecovery(1, i)

SpecFitness == FitnessInit /\ [][FitnessNext]_vars

\* C5: after any sequence of ApplyMatchFitness and ApplyDailyRecovery calls,
\* whatever the minutes, the intensity and the age, the player's Fitness is
\* in [0,100].
C5_FitnessInRange ==
    \A e \in DOMAIN subject :
        0 <= subject[e].Fitness /\ subject[e].Fitness <= 100 * Milli

---------------------------------------------------------------------------
(* The development model: one player under one development engine *)

DevInit ==
    /\ NoTeam
    /\ now = StartClock
    /\ \E name \in DevSubjects : Engines(1, Subject(name))

DevNext ==
    \/ calls < MaxCalls
          /\ \E ty \in TrainingTypes, i \in TrainingIntensities :
                ProcessTraining(1, ty, i)
    \/ calls < MaxCalls /\ ProcessNaturalDevelopment(1)
    \/ ticks < MaxTicks /\ Tick

SpecDev == DevInit /\ [][DevNext]_vars

\* C6: after any sequence of ProcessTraining and ProcessNaturalDevelopment
\* calls, for every outcome of the draws, each of the fifteen attributes
\* (the recomputed Quality among them) is in [0,100].
C6_AttributesInRange ==
    \A e \in DOMAIN subject :
        \A a \in DOMAIN subject[e].Attributes : InRange(subject[e].Attributes[a])

\* a set-pieces training has just raised a goalkeeper's Keeping to 95
C6_Witness ==
    /\ Len(subject) = 1
    /\ session[1].name = "ProcessTraining"
    /\ session[1].kind = TrainingSetPieces
    /\ subject[1].Position = PositionGK
    /\ session[1].pre.Attributes.Keeping < 95
    /\ subject[1].Attributes.Keeping = 95

\* C7: after ProcessTraining returns, the player's Fitness is lower than
\* before the call by 5 x intensity, and the player's Morale is higher by 2
\* when intensity < 0.7, lower by 3 when intensity > 0.9, else unchanged.
C7_TrainingMovesFitnessAndMorale ==
    \A e \in DOMAIN session :
        session[e].name = "ProcessTraining" =>
            /\ subject[e].Fitness =
                  session[e].pre.Fitness - 5 * session[e].intensity * (Milli \div 10)
            /\ subject[e].Morale =
                  session[e].pre.Morale
                     + (IF session[e].intensity < 7 THEN 2 * Milli
                        ELSE IF session[e].intensity > 9 THEN -3 * Milli
                        ELSE 0)

---------------------------------------------------------------------------
(* The training model: one player under ProcessTraining alone *)

MaxTrainings == 1

TrainInit ==
    /\ NoTeam
    /\ now = StartClock
    /\ \E name \in DevSubjects : Engines(1, Subject(name))

TrainNext ==
    \/ calls < MaxTrainings
          /\ \E ty \in TrainingTypes, i \in TrainingIntensities :
                ProcessTraining(1, ty, i)
    \/ ticks < MaxTicks /\ Tick

SpecTrain == TrainInit /\ [][TrainNext]_vars

\* the attributes a training of the type may change in a player of the
\* position, as the specification lists them
MayTrain(trainingType, position) ==
    CASE trainingType = "technical" -> {"Passing", "BallControl", "Shooting"}
      [] trainingType = "physical" -> {"Speed", "Stamina", "Heading"}
      [] trainingType = "tactical" -> {"Perception", "Tackling"}
      [] trainingType = "set_pieces" ->
           IF position = "GK" THEN {"Keeping"} ELSE {"Heading", "Shooting"}
      [] OTHER -> {"Keeping", "Tackling", "Passing", "Shooting", "Heading",
                   "Speed", "Stamina", "Perception", "BallControl"}

\* C17: ProcessTraining leaves every attribute outside the subset of its
\* training type as it was (Quality and the five hidden attributes are in no
\* subset) and lowers no attribute.
C17_TrainingFrame ==
    \A e \in DOMAIN session :
        session[e].name = "ProcessTraining" =>
            LET before == session[e].pre.Attributes
                after == subject[e].Attributes
                may == MayTrain(session[e].kind, session[e].pre.Position)
            IN  \A a \in DOMAIN before :
                    /\ a \notin may => after[a] = before[a]
                    /\ after[a] >= before[a]

\* a tactical training has raised Tackling, and a training of a type that is
\* none of the five has raised an attribute
C17_Witness ==
    /\ Len(subject) = 1
    /\ session[1].name = "ProcessTraining"
    /\ \/ /\ session[1].kind = TrainingTactical
          /\ subject[1].Attributes.Tackling > session[1].pre.Attributes.Tackling
       \/ /\ session[1].kind = "recovery"
          /\ subject[1].Attributes.Heading > session[1].pre.Attributes.Heading

\* C23: after a ProcessTraining call of any training type, the returned
\* AttributeChanges holds for each attribute the amount by which it rose
\* during the call: each recorded value is the new value minus the old one,
\* and each attribute not recorded is as it was.
C23_ChangesAreDifferences ==
    \A e \in DOMAIN session :
        session[e].name = "ProcessTraining" =>
            LET before == session[e].pre.Attributes
                after == subject[e].Attributes
                changes == session[e].result.AttributeChanges
            IN  \A a \in DOMAIN before :
                    IF a \in DOMAIN changes
                    THEN changes[a] = after[a] - before[a]
                    ELSE after[a] = before[a]

\* C18: ProcessNaturalDevelopment of a player older than 30 whose attributes
\* are in [0,100] leaves Speed as it was or lower by 1, and Stamina likewise,
\* lowers neither to less than 30 and raises neither; it leaves Perception as
\* it was or higher by 1 (100 at most); it changes nothing else but Quality.
C18_VeteranDecline ==
    \A e \in DOMAIN session :
        (/\ session[e].name = "ProcessNaturalDevelopment"
         /\ AgeAt(session[e].pre, StartClock) > 30
         /\ \A a \in DOMAIN session[e].pre.Attributes :
               InRange(session[e].pre.Attributes[a]))
        => LET before == session[e].pre.Attributes
               after == subject[e].Attributes
           IN  /\ \A a \in {"Speed", "Stamina"} :
                     \/ after[a] = before[a]
                     \/ after[a] = before[a] - 1 /\ after[a] >= 30
               /\ \/ after.Perception = before.Perception
                  \/ after.Perception = before.Perception + 1
                        /\ after.Perception <= 100
               /\ \A a \in DOMAIN before \ {"Speed", "Stamina", "Perception",
                                              "Quality"} :
                     after[a] = before[a]

\* v + 1, 100 at most
RaisedByOne(v) == IF v + 1 > 100 THEN 100 ELSE v + 1

\* C19: for a player younger than 23, ProcessNaturalDevelopment has an
\* outcome that leaves Speed and Stamina each higher by 1 (100 at most); in
\* every outcome these two are both raised so or both as they were, and at
\* most one of Passing, BallControl, Perception and Tackling is higher by 1,
\* the other three as they were.
C19_YoungGrowth ==
    \A e \in DOMAIN subject :
        AgeAt(subject[e], now) < 23 =>
            LET before == subject[e].Attributes
                outcomes == {r.p.Attributes :
                               r \in ProcessNaturalDevelopmentResult(
                                         subject[e], now, Ahead(e))}
                Grown(after) == /\ after.Speed = RaisedByOne(before.Speed)
                                /\ after.Stamina = RaisedByOne(before.Stamina)
                Same(after) == /\ after.Speed = before.Speed
                               /\ after.Stamina = before.Stamina
                skills == {"Passing", "BallControl", "Perception", "Tackling"}
            IN  /\ \E after \in outcomes : Grown(after)
                /\ \A after \in outcomes :
                      /\ Grown(after) \/ Same(after)
                      /\ \/ \A a \in skills : after[a] = before[a]
                         \/ \E a \in skills :
                               /\ after[a] = RaisedByOne(before[a])
                               /\ \A b \in skills \ {a} : after[b] = before[b]

---------------------------------------------------------------------------
(* The twin model: two development engines made the same calls, each on *)
(* its own copy of one player                                            *)

TwinInit ==
    /\ NoTeam
    /\ now = StartClock
    /\ \E name \in TwinSubjects : Engines(2, Subject(name))

TwinNext ==
    \/ script = <<>> /\ calls < 2 * MaxRounds
          /\ \E ty \in TrainingTypes, i \in TrainingIntensities :
                ProcessTraining(1, ty, i)
    \/ script = <<>> /\ calls < 2 * MaxRounds /\ ProcessNaturalDevelopment(1)
    \/ script # <<>> /\ Head(script).name = "ProcessTraining"
          /\ ProcessTraining(2, Head(script).kind, Head(script).intensity)
    \/ script # <<>> /\ Head(script).name = "ProcessNaturalDevelopment"
          /\ ProcessNaturalDevelopment(2)
    \/ ticks < MaxTicks /\ Tick

SpecTwin == TwinInit /\ [][TwinNext]_vars

\* C10: two engines from NewDevelopmentManager that have been made the same
\* calls on players of equal initial state have left the players with equal
\* attributes, and have returned equal results.
C10_EnginesAgree ==
    (Len(subject) = 2 /\ script = <<>> /\ calls > 0) =>
        /\ subject[1].Attributes = subject[2].Attributes
        /\ session[1].result = session[2].result

=============================================================================
